---- MODULE Spec2Model ----
(***************************************************************************)
(* A model of smallsh.c: the shell loop, the parser, the process launcher, *)
(* the job table and the three signal handlers.  The main flow is cut into *)
(* steps at the places where a signal handler can observe or change shared *)
(* state; each handler runs with every signal blocked (sigfillset) and is  *)
(* one atomic action.  Child processes are the environment.                *)
(***************************************************************************)
EXTENDS Integers, Sequences, FiniteSets, TLC

(* ------------------------------------------------------------------ *)
(* Program constants                                                    *)
(* ------------------------------------------------------------------ *)
MAX_PROCS == 50
SIGKILL == 9
SIGINT == 2
NULL == 0
NoPid == -1
ShellPid == 7

(* ------------------------------------------------------------------ *)
(* Bounds of the model                                                  *)
(* ------------------------------------------------------------------ *)
\* process ids the system hands out: 1..MaxPid
MaxPid == 2
\* descriptors the shell process may hold open (RLIMIT_NOFILE)
FdLimit == 7
\* exit codes a program may end with: 0..MaxExitCode
MaxExitCode == 1

Pids == 1..MaxPid
ExitCodes == 0..MaxExitCode
\* the signal that ends a child from outside the shell (the shell's own is SIGKILL)
SIGHUP == 1
TermSignals == {SIGHUP}

(* ------------------------------------------------------------------ *)
(* Encoded wait status (sys/wait.h)                                     *)
(* ------------------------------------------------------------------ *)
ExitRaw(c) == (c % 256) * 256
SigRaw(s) == s % 128
WEXITSTATUS(x) == (x \div 256) % 256

(* ------------------------------------------------------------------ *)
(* Strings are sequences of one-character strings                       *)
(* ------------------------------------------------------------------ *)
delimiter == {" ", "\n"}
StrExit == <<"e", "x", "i", "t">>
StrCd == <<"c", "d">>
StrStatus == <<"s", "t", "a", "t", "u", "s">>
NoStr == <<>>

Digit(d) == CASE d = 0 -> "0" [] d = 1 -> "1" [] d = 2 -> "2" [] d = 3 -> "3"
              [] d = 4 -> "4" [] d = 5 -> "5" [] d = 6 -> "6" [] d = 7 -> "7"
              [] d = 8 -> "8" [] OTHER -> "9"

RECURSIVE Decimal(_)
\* sprintf("%d") of a non-negative int
Decimal(n) == IF n < 10 THEN <<Digit(n)>> ELSE Decimal(n \div 10) \o <<Digit(n % 10)>>

\* strtok(command, " \n") repeated until NULL: the tokens of the line
RECURSIVE Strtok(_, _, _)
Strtok(s, k, cur) ==
    IF k > Len(s)
    THEN IF cur = <<>> THEN <<>> ELSE <<cur>>
    ELSE IF s[k] \in delimiter
         THEN (IF cur = <<>> THEN <<>> ELSE <<cur>>) \o Strtok(s, k + 1, <<>>)
         ELSE Strtok(s, k + 1, Append(cur, s[k]))

\* strstr(token, "$$") - token, as a 1-based index; 0 when absent
Strstr(token) ==
    LET hits == {k \in 1..(Len(token) - 1) : token[k] = "$" /\ token[k + 1] = "$"}
    IN IF hits = {} THEN 0 ELSE CHOOSE k \in hits : \A j \in hits : k <= j

\* the "$$" branch: pre, the pid, post (only the first occurrence)
Expand(token) ==
    LET replace == Strstr(token)
        pre == SubSeq(token, 1, replace - 1)
        post == SubSeq(token, replace + 2, Len(token))
    IN pre \o Decimal(ShellPid) \o post

\* args[k] holds either a pointer into the line buffer (the token itself) or
\* a pointer to the block-local array res, whose content is kept apart
ResPtr == <<"r", "e", "s", "\n">>

EmptyCommand ==
    [args |-> <<>>, inputFile |-> NoStr, outputFile |-> NoStr,
     background |-> FALSE, res |-> NoStr]

\* a loop body in which "<" announces the output file and ">" the input file
ParseTokenSwapped(token, st, disabled) ==
    IF st.outRedirect
    THEN [st EXCEPT !.outRedirect = FALSE, !.cmd.outputFile = token]
    ELSE IF st.inRedirect
    THEN [st EXCEPT !.inRedirect = FALSE, !.cmd.inputFile = token]
    ELSE IF token[1] = "#"
    THEN [st EXCEPT !.stop = TRUE]
    ELSE IF token = <<"<">>
    THEN [st EXCEPT !.outRedirect = TRUE]
    ELSE IF token = <<">">>
    THEN [st EXCEPT !.inRedirect = TRUE]
    ELSE IF token = <<"&">>
    THEN IF disabled = FALSE THEN [st EXCEPT !.cmd.background = TRUE] ELSE st
    ELSE IF Strstr(token) # 0
    THEN [st EXCEPT !.cmd.res = Expand(token),
                    !.cmd.args = Append(st.cmd.args, ResPtr)]
    ELSE [st EXCEPT !.cmd.args = Append(st.cmd.args, token)]

\* one iteration of getCommand's while loop on `token`
ParseToken(token, st, disabled) ==
    IF st.outRedirect
    THEN [st EXCEPT !.outRedirect = FALSE, !.cmd.outputFile = token]
    ELSE IF st.inRedirect
    THEN [st EXCEPT !.inRedirect = FALSE, !.cmd.inputFile = token]
    ELSE IF token[1] = "#"
    THEN [st EXCEPT !.stop = TRUE]
    ELSE IF token = <<"<">>
    THEN [st EXCEPT !.inRedirect = TRUE]
    ELSE IF token = <<">">>
    THEN [st EXCEPT !.outRedirect = TRUE]
    ELSE IF token = <<"&">>
    THEN IF disabled = FALSE THEN [st EXCEPT !.cmd.background = TRUE] ELSE st
    ELSE IF Strstr(token) # 0
    THEN [st EXCEPT !.cmd.res = Expand(token),
                    !.cmd.args = Append(st.cmd.args, ResPtr)]
    ELSE [st EXCEPT !.cmd.args = Append(st.cmd.args, token)]

RECURSIVE ParseLoop(_, _, _, _)
ParseLoop(tokens, k, st, disabled) ==
    IF k > Len(tokens) \/ st.stop
    THEN st
    ELSE ParseLoop(tokens, k + 1, ParseToken(tokens[k], st, disabled), disabled)

\* getCommand(buffer, curCommand) with backgroundDisabled = disabled
getCommand(command, disabled) ==
    ParseLoop(Strtok(command, 1, <<>>), 1,
              [cmd |-> EmptyCommand, outRedirect |-> FALSE, inRedirect |-> FALSE,
               stop |-> FALSE],
              disabled).cmd

\* what args[k] points at when it is read
ArgStr(cmd, k) == IF cmd.args[k] = ResPtr THEN cmd.res ELSE cmd.args[k]


(* ------------------------------------------------------------------ *)
(* Input lines the user types (fgets), one program name "x"             *)
(* ------------------------------------------------------------------ *)
LineEmpty == <<"\n">>
LineExit == StrExit \o <<"\n">>
LineCd == StrCd \o <<"\n">>
LineStatus == StrStatus \o <<"\n">>
LineFg == <<"x", "\n">>
LineFgOut == <<"x", " ", ">", " ", "o", "\n">>
LineFgIn == <<"x", " ", "<", " ", "i", "\n">>
LineFgInOut == <<"x", " ", "<", " ", "i", " ", ">", " ", "o", "\n">>
LineBg == <<"x", " ", "&", "\n">>
LineBgOut == <<"x", " ", ">", " ", "o", " ", "&", "\n">>
LineBgIn == <<"x", " ", "<", " ", "i", " ", "&", "\n">>
LineBgInOut == <<"x", " ", "<", " ", "i", " ", ">", " ", "o", " ", "&", "\n">>
\* lines that hold no command: blanks only, a tab only, a comment
LineSpaces == <<" ", " ", "\n">>
LineTab == <<"\t", "\n">>
LineComment == <<"#", " ", "x", "\n">>
Lines == {LineEmpty, LineExit, LineCd, LineStatus, LineFg, LineFgOut, LineFgIn,
          LineFgInOut, LineBg, LineBgOut, LineBgIn, LineBgInOut,
          LineSpaces, LineTab, LineComment}

\* getCommand on every line, for either value of backgroundDisabled
Parsed == [line \in Lines |-> [disabled \in BOOLEAN |-> getCommand(line, disabled)]]

(* ------------------------------------------------------------------ *)
(* State                                                                *)
(* ------------------------------------------------------------------ *)
VARIABLES
    pc,                  \* where the main flow stands
    shell,               \* "running", or how the shell process ended
    buffer,              \* runShell's line buffer
    cmd,                 \* *curCommand
    idx,                 \* the loop index i of saveProcess / exitShell
    spawnpid,            \* runCommand's spawnpid
    stdOut, stdIn,       \* runCommand's saved descriptors
    retval,              \* the value runCommand returns
    fds,                 \* the shell's descriptor table
    proc,                \* the child processes, by pid
    backProcs,           \* the job table: slot -> backPID of its record, or NULL
    exitStatus,          \* global exitStatus
    forePID,             \* global forePID
    backgroundDisabled,  \* global backgroundDisabled
    sigchld,             \* a SIGCHLD is pending for the shell
    printed,             \* the lines the latest step wrote to the shell's stdout
    toggles,             \* history: SIGTSTP signals delivered so far, modulo 2
    lastFg,              \* history: how the latest foreground child waited for ended
    bgLaunched,          \* history: pids whose latest launch was a background job
    notified,            \* history: "is done" lines printed per pid since its launch
    exitJobs,            \* history: the jobs registered when exit was dispatched
    exitKills            \* history: the pids sent SIGKILL since exit was dispatched

vars == <<pc, shell, buffer, cmd, idx, spawnpid, stdOut, stdIn, retval, fds, proc,
          backProcs, exitStatus, forePID, backgroundDisabled, sigchld, printed,
          toggles, lastFg, bgLaunched, notified, exitJobs, exitKills>>

locals == <<idx, spawnpid, stdOut, stdIn, retval>>
globals == <<backProcs, exitStatus, forePID, backgroundDisabled>>
history == <<toggles, lastFg, bgLaunched, notified, exitJobs, exitKills>>

Slots == 0..(MAX_PROCS - 1)
Tty == [kind |-> "tty", path |-> NoStr]
DevNull == [kind |-> "null", path |-> NoStr]
File(path) == [kind |-> "file", path |-> path]

FreeProc ==
    [st |-> "free", status |-> 0, background |-> FALSE, inputFile |-> NoStr,
     outputFile |-> NoStr, stdin |-> Tty, stdout |-> Tty, execed |-> FALSE,
     fail |-> "none"]

\* a process that has ended and is not yet waited for: its memory and its
\* descriptors are gone, its status is kept for the parent
Zombie(c, raw) ==
    [FreeProc EXCEPT !.st = "zombie", !.status = raw, !.fail = c.fail]

Out(text, a, b) == [text |-> text, a |-> a, b |-> b]

Init ==
    /\ pc = "prompt"
    /\ shell = "running"
    /\ buffer = <<>>
    /\ cmd = EmptyCommand
    /\ idx = 0
    /\ spawnpid = 0
    /\ stdOut = 0
    /\ stdIn = 0
    /\ retval = 0
    /\ fds = [fd \in 0..(FdLimit - 1) |-> IF fd <= 2 THEN "tty" ELSE "closed"]
    /\ proc = [p \in Pids |-> FreeProc]
    /\ backProcs = [s \in Slots |-> NULL]
    /\ exitStatus = 0
    /\ forePID = NoPid
    /\ backgroundDisabled = FALSE
    /\ sigchld = FALSE
    /\ printed = <<>>
    /\ toggles = 0
    /\ lastFg = [kind |-> "none", n |-> 0, fail |-> "none"]
    /\ bgLaunched = {}
    /\ notified = [p \in Pids |-> 0]
    /\ exitJobs = {}
    /\ exitKills = {}


(* ------------------------------------------------------------------ *)
(* Operating-system helpers                                             *)
(* ------------------------------------------------------------------ *)
\* dup(): the lowest closed descriptor, or -1 when the table is full
Dup(table) ==
    LET closed == {fd \in DOMAIN table : table[fd] = "closed"}
    IN IF closed = {} THEN -1 ELSE CHOOSE fd \in closed : \A g \in closed : fd <= g

Alive(p) == proc[p].st \in {"forked", "running"}

\* the processes kill(target, sig) reaches: -1 is every process the caller
\* may signal, here the shell's children
KillTargets(target) ==
    IF target = -1 THEN {p \in DOMAIN proc : Alive(p)}
    ELSE IF target \in DOMAIN proc /\ Alive(target) THEN {target}
    ELSE {}

\* the process table after kill(target, SIGKILL)
Killed(target) ==
    [p \in DOMAIN proc |->
        IF p \in KillTargets(target)
        THEN Zombie(proc[p], SigRaw(SIGKILL))
        ELSE proc[p]]

\* the main flow is back at the top of runShell's loop: the iteration's
\* command and runCommand's locals are gone
AtPrompt ==
    /\ pc' = "prompt"
    /\ buffer' = <<>>
    /\ cmd' = EmptyCommand
    /\ idx' = 0
    /\ spawnpid' = 0
    /\ stdOut' = 0
    /\ stdIn' = 0
    /\ retval' = 0

Running == shell = "running"

(* ------------------------------------------------------------------ *)
(* runShell                                                             *)
(* ------------------------------------------------------------------ *)
\* prompt, fgets, getCommand
ReadCommand ==
    /\ Running /\ pc = "prompt"
    /\ \E line \in Lines :
        /\ buffer' = line
        /\ cmd' = Parsed[line][backgroundDisabled]
    /\ pc' = "dispatch"
    /\ printed' = <<Out(": ", 0, 0)>>
    /\ UNCHANGED <<shell, locals, fds, proc, globals, sigchld, history>>

\* args[0] == NULL: continue
DispatchEmpty ==
    /\ Running /\ pc = "dispatch"
    /\ cmd.args = <<>>
    /\ AtPrompt
    /\ printed' = <<>>
    /\ UNCHANGED <<shell, fds, proc, globals, sigchld, history>>

\* "exit": exitShell() is entered
DispatchExit ==
    /\ Running /\ pc = "dispatch"
    /\ cmd.args # <<>> /\ ArgStr(cmd, 1) = StrExit
    /\ pc' = "exit_check"
    /\ idx' = 0
    /\ cmd' = [cmd EXCEPT !.args = <<>>]
    /\ exitJobs' = {backProcs[s] : s \in {t \in Slots : backProcs[t] # NULL}}
    /\ exitKills' = {}
    /\ printed' = <<>>
    /\ UNCHANGED <<shell, buffer, spawnpid, stdOut, stdIn, retval, fds, proc, globals,
                   sigchld, toggles, lastFg, bgLaunched, notified>>

\* "cd": changeDir(); the working directory is not part of the model
changeDir ==
    /\ Running /\ pc = "dispatch"
    /\ cmd.args # <<>> /\ ArgStr(cmd, 1) = StrCd
    /\ AtPrompt
    /\ printed' = <<>>
    /\ UNCHANGED <<shell, fds, proc, globals, sigchld, history>>

\* "status": printStatus()
printStatus ==
    /\ Running /\ pc = "dispatch"
    /\ cmd.args # <<>> /\ ArgStr(cmd, 1) = StrStatus
    /\ AtPrompt
    /\ printed' = <<Out("exit value", exitStatus, 0)>>
    /\ UNCHANGED <<shell, fds, proc, globals, sigchld, history>>

(* ------------------------------------------------------------------ *)
(* runCommand, in the shell                                             *)
(* ------------------------------------------------------------------ *)
\* the descriptor table and the two saved descriptors after the dup() calls
Dups(table) ==
    LET o == Dup(table)
        t1 == IF o = -1 THEN table ELSE [table EXCEPT ![o] = table[1]]
        n == Dup(t1)
        t2 == IF n = -1 THEN t1 ELSE [t1 EXCEPT ![n] = t1[0]]
    IN [fds |-> t2, stdOut |-> o, stdIn |-> n]

\* the child right after fork(): a copy of the shell
Forked(c) ==
    [FreeProc EXCEPT !.st = "forked", !.background = c.background,
                     !.inputFile = c.inputFile, !.outputFile = c.outputFile,
                     !.stdin = Tty, !.stdout = Tty]

\* the pid fork() returns: one that no running or unreaped process has, here
\* the lowest of them.  A pid is free again once it is reaped, so the pid a
\* stale forePID names can be handed out to the next child or job.
NewPid == CHOOSE p \in Pids : proc[p].st = "free" /\ \A q \in Pids : proc[q].st = "free" => p <= q

\* anything that is no built-in: runCommand is entered, the two dup() calls and
\* fork().  A failed dup or fork ends the shell by exit(EXIT_FAILURE).  After
\* fork the parent goes on to saveProcess (i = 0) or to the foreground branch.
\* The steps up to fork touch nothing a handler reads or writes.
Launch ==
    /\ Running /\ pc = "dispatch"
    /\ cmd.args # <<>> /\ ArgStr(cmd, 1) \notin {StrExit, StrCd, StrStatus}
    /\ LET d == Dups(fds)
       IN /\ fds' = d.fds
          /\ stdOut' = d.stdOut
          /\ stdIn' = d.stdIn
          /\ IF d.stdOut = -1 \/ d.stdIn = -1 \/ \A p \in Pids : proc[p].st # "free"
             THEN /\ shell' = "exit1"
                  /\ UNCHANGED <<pc, idx, spawnpid, proc, bgLaunched, notified>>
             ELSE LET p == NewPid
                  IN
                  /\ proc' = [proc EXCEPT ![p] = Forked(cmd)]
                  /\ spawnpid' = p
                  /\ idx' = 0
                  /\ pc' = IF cmd.background = TRUE THEN "save_check" ELSE "setfore"
                  /\ bgLaunched' = IF cmd.background THEN bgLaunched \cup {p}
                                   ELSE bgLaunched \ {p}
                  /\ notified' = [notified EXCEPT ![p] = 0]
                  /\ shell' = shell
    /\ printed' = <<>>
    /\ UNCHANGED <<buffer, cmd, retval, globals, sigchld, toggles, lastFg, exitJobs,
                   exitKills>>

\* saveProcess: the test backProcs[i] == NULL of one iteration.  Past the end
\* of the array the read is out of bounds: the build may fault or may find
\* some word that is zero and store there, leaving the table as it is.
SaveCheck ==
    /\ Running /\ pc = "save_check"
    /\ IF idx >= MAX_PROCS
       THEN \E fault \in BOOLEAN :
              IF fault THEN shell' = "crashed" /\ UNCHANGED <<pc, idx>>
              ELSE shell' = shell /\ pc' = "restore" /\ idx' = idx
       ELSE /\ shell' = shell
            /\ IF backProcs[idx] = NULL
               THEN pc' = "save_store" /\ idx' = idx
               ELSE pc' = pc /\ idx' = idx + 1
    /\ printed' = <<>>
    /\ UNCHANGED <<buffer, cmd, spawnpid, stdOut, stdIn, retval, fds, proc, globals,
                   sigchld, history>>

\* a saveProcess that advances i before the test instead of after the store,
\* and so stores one slot below the one it found empty
SaveSlotBelow == IF idx > 0 THEN idx - 1 ELSE idx

\* the slot saveProcess stores the record in
SaveSlot == idx

\* saveProcess: backProcs[i] = proc; saved = TRUE; i++
SaveStore ==
    /\ Running /\ pc = "save_store"
    /\ backProcs' = [backProcs EXCEPT ![SaveSlot] = spawnpid]
    /\ idx' = idx + 1
    /\ pc' = "restore"
    /\ printed' = <<>>
    /\ UNCHANGED <<shell, buffer, cmd, spawnpid, stdOut, stdIn, retval, fds, proc,
                   exitStatus, forePID, backgroundDisabled, sigchld, history>>

\* forePID = spawnpid
SetFore ==
    /\ Running /\ pc = "setfore"
    /\ forePID' = spawnpid
    /\ pc' = "wait"
    /\ printed' = <<>>
    /\ UNCHANGED <<shell, buffer, cmd, locals, fds, proc, backProcs, exitStatus,
                   backgroundDisabled, sigchld, history>>

\* how a child with encoded status raw ended: WIFEXITED / WEXITSTATUS / WTERMSIG
Ended(raw) ==
    IF raw % 128 = 0 THEN [kind |-> "exit", n |-> WEXITSTATUS(raw)]
    ELSE [kind |-> "signal", n |-> raw % 128]

\* waitpid(spawnpid, &exitStatus, 0) returns: the child has ended
Wait ==
    /\ Running /\ pc = "wait"
    /\ proc[spawnpid].st = "zombie"
    /\ exitStatus' = proc[spawnpid].status
    /\ lastFg' = [kind |-> Ended(proc[spawnpid].status).kind,
                  n |-> Ended(proc[spawnpid].status).n,
                  fail |-> proc[spawnpid].fail]
    /\ proc' = [proc EXCEPT ![spawnpid] = FreeProc]
    /\ pc' = "restore"
    /\ printed' = <<>>
    /\ UNCHANGED <<shell, buffer, cmd, locals, fds, backProcs, forePID,
                   backgroundDisabled, sigchld, toggles, bgLaunched, notified,
                   exitJobs, exitKills>>

\* the value of the return statement of runCommand
ReturnValue == WEXITSTATUS(exitStatus)

\* for a background command "background pid is %d"; then the two dup2()
\* restores and return WEXITSTATUS(exitStatus)
RestoreReturn ==
    /\ Running /\ pc = "restore"
    /\ LET t1 == IF cmd.inputFile # NoStr THEN [fds EXCEPT ![0] = fds[stdIn]] ELSE fds
           t2 == IF cmd.outputFile # NoStr THEN [t1 EXCEPT ![1] = t1[stdOut]] ELSE t1
       IN fds' = t2
    /\ retval' = ReturnValue
    /\ pc' = "assign"
    /\ printed' = IF cmd.background = TRUE
                  THEN <<Out("background pid is", spawnpid, 0)>>
                  ELSE <<>>
    /\ UNCHANGED <<shell, buffer, cmd, idx, spawnpid, stdOut, stdIn, proc, globals,
                   sigchld, history>>

\* runShell: exitStatus = runCommand(curCommand), then the end of the loop body
Assign ==
    /\ Running /\ pc = "assign"
    /\ exitStatus' = retval
    /\ AtPrompt
    /\ printed' = <<>>
    /\ UNCHANGED <<shell, fds, proc, backProcs, forePID, backgroundDisabled, sigchld,
                   history>>

(* ------------------------------------------------------------------ *)
(* exitShell                                                            *)
(* ------------------------------------------------------------------ *)
\* the occupied slots the loop has not passed yet
ExitLeft == {s \in Slots : s >= idx /\ backProcs[s] # NULL}

\* the loop runs on to the next slot with backProcs[i] != NULL, or to
\* exit(EXIT_SUCCESS).  Empty slots are passed in one step: a handler can only
\* empty a slot, never fill one.
ExitCheck ==
    /\ Running /\ pc = "exit_check"
    /\ IF ExitLeft = {}
       THEN shell' = "exit0" /\ pc' = pc /\ idx' = MAX_PROCS
       ELSE /\ shell' = shell
            /\ pc' = "exit_kill"
            /\ idx' = CHOOSE s \in ExitLeft : \A t \in ExitLeft : s <= t
    /\ printed' = <<>>
    /\ UNCHANGED <<buffer, cmd, spawnpid, stdOut, stdIn, retval, fds, proc, globals,
                   sigchld, history>>

\* kill(backProcs[i]->backPID, SIGKILL).  If the reaper emptied the slot after
\* the test, a null or released record is read: the build either faults or
\* signals whatever pid it finds there, which is no live job.
ExitKill ==
    /\ Running /\ pc = "exit_kill"
    /\ IF backProcs[idx] # NULL
       THEN /\ proc' = Killed(backProcs[idx])
            /\ sigchld' = (sigchld \/ KillTargets(backProcs[idx]) # {})
            /\ exitKills' = exitKills \cup {backProcs[idx]}
            /\ shell' = shell /\ pc' = "exit_free"
       ELSE /\ \E fault \in BOOLEAN :
                IF fault THEN shell' = "crashed" /\ pc' = pc
                ELSE shell' = shell /\ pc' = "exit_free"
            /\ UNCHANGED <<proc, sigchld, exitKills>>
    /\ printed' = <<>>
    /\ UNCHANGED <<buffer, cmd, locals, fds, globals, toggles, lastFg, bgLaunched,
                   notified, exitJobs>>

\* free(backProcs[i]): the pointer is read again after the call to kill, so a
\* slot the reaper emptied meanwhile gives free(NULL)
ExitFree ==
    /\ Running /\ pc = "exit_free"
    /\ pc' = "exit_null"
    /\ printed' = <<>>
    /\ UNCHANGED <<shell, buffer, cmd, locals, fds, proc, globals, sigchld, history>>

\* backProcs[i] = NULL, and the loop goes on
ExitNull ==
    /\ Running /\ pc = "exit_null"
    /\ backProcs' = [backProcs EXCEPT ![idx] = NULL]
    /\ idx' = idx + 1
    /\ pc' = "exit_check"
    /\ printed' = <<>>
    /\ UNCHANGED <<shell, buffer, cmd, spawnpid, stdOut, stdIn, retval, fds, proc,
                   exitStatus, forePID, backgroundDisabled, sigchld, history>>

\* between free() and the store of NULL, slot i still points at the released record
Dangling(s) == pc = "exit_null" /\ s = idx /\ backProcs[s] # NULL

(* ------------------------------------------------------------------ *)
(* Signal handlers                                                      *)
(* ------------------------------------------------------------------ *)
\* the line the reaper prints for pid with captured status raw
DoneLine(pid, raw) ==
    IF raw # 0 /\ raw # 1
    THEN Out("background pid is done: terminated by signal", pid, raw)
    ELSE Out("background pid is done: exit value", pid, raw)

\* a reaper that collects whichever child has ended (waitpid(-1, ..)), not
\* only the pids of the table
ReapAny(i, st) ==
    [st EXCEPT
       !.table = [s \in Slots |->
                    IF st.table[s] # NULL /\ st.procs[st.table[s]].st = "zombie"
                    THEN NULL ELSE st.table[s]],
       !.procs = [p \in DOMAIN st.procs |->
                    IF st.procs[p].st = "zombie" THEN FreeProc ELSE st.procs[p]]]

\* a reaper whose waitpid(.., WNOHANG) stores a status of 0 when the job of an
\* occupied slot has not ended
ReapStoring(i, st) ==
    [st EXCEPT !.status = IF \E s \in Slots : st.table[s] # NULL THEN 0 ELSE st.status]

\* the for loop of childTerminates from slot i on; st carries the table, the
\* captured status, the lines printed, the processes, the line counts, the
\* pids signalled and whether a released record was freed again.
\* waitpid(.., WNOHANG) returns the pid only for a child that has ended, and
\* stores its status only then; the kill() that follows finds no process.
RECURSIVE ReapFrom(_, _)
ReapFrom(i, st) ==
    IF i >= MAX_PROCS \/ \A s \in i..(MAX_PROCS - 1) : st.table[s] = NULL
    THEN st
    ELSE IF st.table[i] # NULL /\ st.procs[st.table[i]].st = "zombie"
         THEN LET pid == st.table[i]
                  raw == st.procs[pid].status
              IN ReapFrom(i + 1,
                   [table |-> [st.table EXCEPT ![i] = NULL],
                    status |-> raw,
                    lines |-> Append(st.lines, DoneLine(pid, raw)),
                    procs |-> [st.procs EXCEPT ![pid] = FreeProc],
                    count |-> [st.count EXCEPT ![pid] = @ + 1],
                    kills |-> st.kills \cup {pid},
                    refreed |-> (st.refreed \/ Dangling(i))])
         ELSE ReapFrom(i + 1, st)

\* SIGCHLD is delivered.  A record that exitShell has already freed is read
\* and freed again: the build either aborts there or carries on.
childTerminates ==
    /\ Running /\ sigchld
    /\ LET r == ReapFrom(0, [table |-> backProcs, status |-> exitStatus,
                             lines |-> <<>>, procs |-> proc, count |-> notified,
                             kills |-> {}, refreed |-> FALSE])
       IN /\ backProcs' = r.table
          /\ exitStatus' = r.status
          /\ printed' = r.lines
          /\ proc' = r.procs
          /\ notified' = r.count
          /\ exitKills' = IF pc \in {"exit_check", "exit_kill", "exit_free", "exit_null"}
                          THEN exitKills \cup r.kills ELSE exitKills
          /\ IF r.refreed
             THEN \E fault \in BOOLEAN : shell' = IF fault THEN "crashed" ELSE shell
             ELSE shell' = shell
    /\ sigchld' = FALSE
    /\ UNCHANGED <<pc, buffer, cmd, locals, fds, forePID, backgroundDisabled,
                   toggles, lastFg, bgLaunched, exitJobs>>

\* SIGINT is delivered
interruptSignal ==
    /\ Running
    /\ proc' = Killed(forePID)
    /\ sigchld' = (sigchld \/ KillTargets(forePID) # {})
    /\ printed' = <<Out("terminated by signal", SIGINT, 0)>>
    /\ UNCHANGED <<pc, shell, buffer, cmd, locals, fds, globals, history>>

\* a handler that only ever switches foreground-only mode on
ToggledStuck(flag) == TRUE

\* the flag after a SIGTSTP
Toggled(flag) == IF flag THEN FALSE ELSE TRUE

\* SIGTSTP is delivered
disableBackground ==
    /\ Running
    /\ toggles' = (toggles + 1) % 2
    /\ printed' = IF backgroundDisabled
                  THEN <<Out("Exiting foreground-only mode", 0, 0)>>
                  ELSE <<Out("Entering foreground-only mode (& is now ignored)", 0, 0)>>
    /\ backgroundDisabled' = Toggled(backgroundDisabled)
    /\ UNCHANGED <<pc, shell, buffer, cmd, locals, fds, proc, backProcs, exitStatus,
                   forePID, sigchld, lastFg, bgLaunched, notified, exitJobs, exitKills>>

(* ------------------------------------------------------------------ *)
(* The child processes                                                  *)
(* ------------------------------------------------------------------ *)
\* what the child's stdout is after its redirection code, when the opens succeed
ChildStdout(c) ==
    IF c.background = TRUE
    THEN IF c.outputFile = NoStr THEN DevNull ELSE c.stdout
    ELSE IF c.outputFile # NoStr THEN File(c.outputFile) ELSE c.stdout

\* the same for stdin
ChildStdin(c) ==
    IF c.background = TRUE
    THEN IF c.inputFile = NoStr THEN DevNull ELSE c.stdin
    ELSE IF c.inputFile # NoStr THEN File(c.inputFile) ELSE c.stdin

\* the child's branch of runCommand, from the redirections to execvp: okOut,
\* okIn and okExec say whether the output open, the input open and execvp
\* succeed.  Every failure prints a diagnostic and ends the child by exit(1).
ChildSetup(p) ==
    /\ Running
    /\ proc[p].st = "forked"
    /\ \E okOut, okIn, okExec \in BOOLEAN :
        LET c == proc[p]
            opensOut == ChildStdout(c) # c.stdout
            opensIn == ChildStdin(c) # c.stdin
            fail == IF opensOut /\ ~okOut THEN "output"
                    ELSE IF opensIn /\ ~okIn THEN "input"
                    ELSE IF ~okExec THEN "exec"
                    ELSE "none"
            out == IF opensOut /\ okOut THEN ChildStdout(c) ELSE c.stdout
            in == IF opensIn /\ okIn /\ fail # "output" THEN ChildStdin(c) ELSE c.stdin
        IN /\ proc' = [proc EXCEPT ![p] =
                         IF fail = "none"
                         THEN [c EXCEPT !.stdout = out, !.stdin = in, !.execed = TRUE,
                                        !.st = "running"]
                         ELSE Zombie([c EXCEPT !.fail = fail], ExitRaw(1))]
           /\ sigchld' = (sigchld \/ fail # "none")
    /\ printed' = <<>>
    /\ UNCHANGED <<pc, shell, buffer, cmd, locals, fds, globals, history>>

\* the program the child runs ends by exit(code)
ChildExit(p) ==
    /\ Running
    /\ proc[p].st = "running"
    /\ \E code \in ExitCodes :
        proc' = [proc EXCEPT ![p] = Zombie(proc[p], ExitRaw(code))]
    /\ sigchld' = TRUE
    /\ printed' = <<>>
    /\ UNCHANGED <<pc, shell, buffer, cmd, locals, fds, globals, history>>

\* a signal from outside the shell ends the child
ChildSignalled(p) ==
    /\ Running
    /\ Alive(p)
    /\ \E sig \in TermSignals :
        proc' = [proc EXCEPT ![p] = Zombie(proc[p], SigRaw(sig))]
    /\ sigchld' = TRUE
    /\ printed' = <<>>
    /\ UNCHANGED <<pc, shell, buffer, cmd, locals, fds, globals, history>>

\* the child is stopped or continued: SIGCHLD without a termination
\* (the handler is installed without SA_NOCLDSTOP)
ChildStopped(p) ==
    /\ Running
    /\ Alive(p)
    /\ ~sigchld
    /\ sigchld' = TRUE
    /\ printed' = <<>>
    /\ UNCHANGED <<pc, shell, buffer, cmd, locals, fds, proc, globals, history>>

(* ------------------------------------------------------------------ *)
(* The system                                                           *)
(* ------------------------------------------------------------------ *)
Next ==
    \/ ReadCommand
    \/ DispatchEmpty
    \/ DispatchExit
    \/ changeDir
    \/ printStatus
    \/ Launch
    \/ SaveCheck
    \/ SaveStore
    \/ SetFore
    \/ Wait
    \/ RestoreReturn
    \/ Assign
    \/ ExitCheck
    \/ ExitKill
    \/ ExitFree
    \/ ExitNull
    \/ childTerminates
    \/ interruptSignal
    \/ disableBackground
    \/ \E p \in Pids : ChildSetup(p)
    \/ \E p \in Pids : ChildExit(p)
    \/ \E p \in Pids : ChildSignalled(p)
    \/ \E p \in Pids : ChildStopped(p)

Spec == Init /\ [][Next]_vars


(* ------------------------------------------------------------------ *)
(* Properties                                                           *)
(* ------------------------------------------------------------------ *)
\* the latest step was printStatus
StatusPrinted == Len(printed) = 1 /\ printed[1].text = "exit value"

\* the descriptors the shell holds open
OpenFds == {fd \in DOMAIN fds : fds[fd] # "closed"}

\* the last token of the line is "&"
TrailingAmp(line) ==
    LET tokens == Strtok(line, 1, <<>>)
    IN tokens # <<>> /\ tokens[Len(tokens)] = <<"&">>

\* C1: whenever status runs, it prints "exit value N", N the exit code of the
\* most recently completed foreground command, whatever background launches
\* and reaper runs came before, during or after that command's wait.
C1_StatusPrintsForegroundExitCode ==
    (StatusPrinted /\ lastFg.kind = "exit") => printed[1].a = lastFg.n

\* C2: once every background job launched has ended, a SIGCHLD has been
\* delivered for each ending and the shell is back at its prompt, all slots
\* are empty and each job has got exactly one "is done" line; in particular
\* for a child that ends before saveProcess stores its record.
C2_AllJobsReaped ==
    (/\ Running /\ pc = "prompt" /\ ~sigchld
     /\ \A p \in Pids : ~Alive(p))
    => (/\ \A s \in Slots : backProcs[s] = NULL
        /\ \A p \in bgLaunched : notified[p] = 1)

\* C3: no two occupied slots hold the same pid; saveProcess stores only into
\* a slot that is empty at the moment of the store, so an occupied slot changes
\* only by being released; the reaper prints at most one "is done" line per
\* registered job.
C3_NoDoubleBooking ==
    [][/\ \A s \in Slots :
            backProcs'[s] # NULL
            => \A t \in Slots \ {s} : backProcs'[t] # backProcs'[s]
       /\ \A s \in Slots :
            (backProcs[s] # NULL /\ backProcs'[s] # backProcs[s]) => backProcs'[s] = NULL
       /\ (pc = "save_store" /\ pc' # pc) =>
            (backProcs[idx] = NULL /\ backProcs' = [backProcs EXCEPT ![idx] = spawnpid])
       /\ \A p \in Pids : notified'[p] <= 1]_vars

\* two jobs are registered, and the reaper has released the slot of one job
\* while another one stays registered
C3_Witness ==
    /\ backProcs[0] = NULL
    /\ backProcs[1] # NULL
    /\ \E p \in Pids : notified[p] = 1 /\ p # backProcs[1]

\* C4: when exit is dispatched with N jobs registered, every one of them is
\* sent a kill before the shell ends, every slot is empty when it ends, and it
\* ends with status 0.
C4_ExitKillsAllJobs ==
    /\ pc \in {"exit_check", "exit_kill", "exit_free", "exit_null"}
         => shell \in {"running", "exit0"}
    /\ shell = "exit0"
         => (exitJobs \subseteq exitKills /\ \A s \in Slots : backProcs[s] = NULL)

\* C5: when runCommand has returned, the shell's stdin and stdout are what
\* they were and it holds no descriptor it did not hold before the call: the
\* duplicates taken at entry do not pile up.
C5_DescriptorsRestored ==
    pc = "assign" => (fds[0] = "tty" /\ fds[1] = "tty" /\ OpenFds = {0, 1, 2})

\* C6: after a foreground command ended by a signal, status does not print
\* what it prints after a command that exited with code 0.
C6_StatusReflectsSignal ==
    (StatusPrinted /\ lastFg.kind = "signal") => printed[1].a # 0

\* C7: backgroundDisabled is true exactly after an odd number of toggle
\* signals; a line with a trailing "&" parses to background = TRUE exactly when
\* the number of toggles so far is even; each toggle prints the one line that
\* belongs to the new state; only the toggle handler writes the flag.
C7_ToggleRoundTrip ==
    [][/\ backgroundDisabled' = (toggles' = 1)
       /\ ReadCommand => (cmd'.background = (TrailingAmp(buffer') /\ toggles = 0))
       /\ (toggles' # toggles) =>
            printed' = IF backgroundDisabled'
                       THEN <<Out("Entering foreground-only mode (& is now ignored)", 0, 0)>>
                       ELSE <<Out("Exiting foreground-only mode", 0, 0)>>
       /\ (backgroundDisabled' # backgroundDisabled) => disableBackground]_vars

\* a line with a trailing "&" was parsed in foreground-only mode, and a
\* second toggle has since switched the mode off again
C7_Witness ==
    /\ pc = "dispatch"
    /\ TrailingAmp(buffer)
    /\ cmd.background = FALSE
    /\ printed = <<Out("Exiting foreground-only mode", 0, 0)>>

\* C8: a background child that has replaced its program image has as stdout
\* the discard device or the requested outputFile, and as stdin the discard
\* device or the requested inputFile.
C8_BackgroundOffTerminal ==
    \A p \in Pids :
        (proc[p].st = "running" /\ proc[p].background)
        => (/\ proc[p].stdout \in
                 {DevNull} \cup (IF proc[p].outputFile # NoStr
                                 THEN {File(proc[p].outputFile)} ELSE {})
            /\ proc[p].stdin \in
                 {DevNull} \cup (IF proc[p].inputFile # NoStr
                                 THEN {File(proc[p].inputFile)} ELSE {}))

\* C9: for a command launched with background = TRUE runCommand returns 0.
C9_BackgroundReturnsZero ==
    (pc = "assign" /\ cmd.background) => retval = 0

\* C10: a child that cannot open a redirection file or cannot replace its
\* image ends with exit status 1 without having replaced the image; for a
\* foreground command the shell keeps running and records status 1.
C10_ChildOnlyFailure ==
    /\ \A p \in Pids :
         proc[p].fail # "none"
         => (proc[p].st = "zombie" /\ proc[p].status = ExitRaw(1) /\ ~proc[p].execed)
    /\ (pc = "assign" /\ ~cmd.background /\ lastFg.fail # "none")
         => (Running /\ retval = 1)

\* C11: for every "is done" line the reaper prints, the job named in it ended
\* the way the line says: a job that exited with code N gets "exit value N",
\* and "terminated by signal S" is printed only for a job ended by signal S.
C11_AnnouncementMatchesEnding ==
    [][childTerminates =>
         \A k \in 1..Len(printed') :
            LET line == printed'[k]
                how == Ended(proc[line.a].status)
            IN /\ how.kind = "exit"
                    => (/\ line.text = "background pid is done: exit value"
                        /\ line.b = how.n)
               /\ line.text = "background pid is done: terminated by signal"
                    => (how.kind = "signal" /\ line.b = how.n)]_vars

\* the line holds nothing but spaces, tabs and the line terminator
Blank(line) == \A k \in 1..Len(line) : line[k] \in {" ", "\t", "\n"}

\* the whitespace-separated words of the line
RECURSIVE Words(_, _, _)
Words(s, k, cur) ==
    IF k > Len(s)
    THEN IF cur = <<>> THEN <<>> ELSE <<cur>>
    ELSE IF s[k] \in {" ", "\t", "\n"}
         THEN (IF cur = <<>> THEN <<>> ELSE <<cur>>) \o Words(s, k + 1, <<>>)
         ELSE Words(s, k + 1, Append(cur, s[k]))

\* the first word of the line starts with "#"
CommentLine(line) ==
    LET words == Words(line, 1, <<>>)
    IN words # <<>> /\ words[1][1] = "#"

\* C12: a line of whitespace only, or one whose first token starts with "#",
\* is not dispatched: the step the main flow takes from the dispatch point is
\* the one back to the prompt, it creates no process, runs no built-in and
\* leaves exitStatus, forePID, the job table and backgroundDisabled as they are.
C12_BlankLineSkipsDispatch ==
    [][(/\ pc = "dispatch"
        /\ Blank(buffer) \/ CommentLine(buffer)
        /\ DispatchEmpty \/ DispatchExit \/ changeDir \/ printStatus \/ Launch)
       => (/\ DispatchEmpty
           /\ UNCHANGED <<shell, fds, proc, globals>>)]_vars

(* ------------------------------------------------------------------ *)
(* The parser on its own: any line of a few tokens                      *)
(* ------------------------------------------------------------------ *)
\* tokens a line is made of: at most MaxTokens of them
MaxTokens == 3

Tokens ==
    {<<"x">>, <<"y">>, <<"<">>, <<">">>, <<"&">>, <<"#", "c">>,
     <<"$", "$">>, <<"a", "$", "$", "b">>, <<"$", "$", "$", "$">>}

\* the tokens, one blank between two of them, and the line terminator
RECURSIVE Join(_, _)
Join(tokens, k) ==
    IF k > Len(tokens) THEN <<"\n">>
    ELSE tokens[k] \o (IF k < Len(tokens) THEN <<" ">> ELSE <<>>) \o Join(tokens, k + 1)

LineLs == <<"l", "s", " ", "-", "l", "a", " ", "$", "$", "\n">>
LineSort == <<"s", "o", "r", "t", " ", "<", " ", "i", "n", ".", "t", "x", "t", " ", ">", " ", "o", "u", "t", ".", "t", "x", "t", " ", "&", "\n">>
LinePadded == <<" ", " ", "x", " ", " ", " ", "&", " ", " ", "\n">>

ParseLines ==
    {Join(tokens, 1) :
        tokens \in UNION {[1..n -> Tokens] : n \in 1..MaxTokens}}
    \cup {LineLs, LineSort, LinePadded}

\* what a read through a pointer to the array res finds once the block it was
\* declared in has been left and the memory has been used again
Garbage == <<"?">>

\* prompt, fgets, getCommand on any of ParseLines.  args[] keeps pointers to
\* res, an array of the block of the "$$" branch: when the arguments are
\* read, after that block and getCommand itself have been left, the array
\* holds what the last sprintf wrote or whatever has overwritten it since.
ReadAnyCommand ==
    /\ Running /\ pc = "prompt"
    /\ \E line \in ParseLines, intact \in BOOLEAN :
        LET c == getCommand(line, backgroundDisabled)
        IN /\ buffer' = line
           /\ cmd' = [c EXCEPT !.res = IF intact \/ c.res = NoStr THEN c.res ELSE Garbage]
    /\ pc' = "dispatch"
    /\ printed' = <<Out(": ", 0, 0)>>
    /\ UNCHANGED <<shell, locals, fds, proc, globals, sigchld, history>>

\* args[0..] as the dispatch code and execvp read them
DispatchedArgs(c) == [k \in 1..Len(c.args) |-> ArgStr(c, k)]

NextParse ==
    \/ ReadAnyCommand
    \/ disableBackground

SpecParse == Init /\ [][NextParse]_vars

\* the part each token of a line plays, read left to right: the token after
\* an operator is a path, "<", ">" and "&" are themselves, anything else is an
\* argument.  With cut, a token that starts with "#" and all that follows it
\* is dropped.
RECURSIVE Roles(_, _, _, _)
Roles(words, k, prev, cut) ==
    IF k > Len(words) THEN <<>>
    ELSE LET w == words[k]
             role == IF prev = "dropped" THEN "dropped"
                     ELSE IF prev = "<" THEN "input"
                     ELSE IF prev = ">" THEN "output"
                     ELSE IF cut /\ w[1] = "#" THEN "dropped"
                     ELSE IF w = <<"<">> THEN "<"
                     ELSE IF w = <<">">> THEN ">"
                     ELSE IF w = <<"&">> THEN "&"
                     ELSE "arg"
         IN <<role>> \o Roles(words, k + 1, role, cut)

\* the tokens that play the part `role`, in their order
RECURSIVE Pick(_, _, _, _)
Pick(words, roles, role, k) ==
    IF k > Len(words) THEN <<>>
    ELSE (IF roles[k] = role THEN <<words[k]>> ELSE <<>>) \o Pick(words, roles, role, k + 1)

\* the token with every "$$" replaced by the decimal pid
RECURSIVE ReplaceAll(_, _)
ReplaceAll(w, k) ==
    IF k > Len(w) THEN <<>>
    ELSE IF k < Len(w) /\ w[k] = "$" /\ w[k + 1] = "$"
         THEN Decimal(ShellPid) \o ReplaceAll(w, k + 2)
         ELSE <<w[k]>> \o ReplaceAll(w, k + 1)

HasPidSymbol(w) == \E k \in 1..(Len(w) - 1) : w[k] = "$" /\ w[k + 1] = "$"

\* C13: a parsed line has background = TRUE only if its last token is "&" and
\* backgroundDisabled was false when the line was parsed.
C13_BackgroundOnlyTrailingAmp ==
    [][ReadAnyCommand =>
         (cmd'.background = TRUE
            => (TrailingAmp(buffer') /\ backgroundDisabled = FALSE))]_vars

\* C14: when the command is dispatched, every argument that comes from a token
\* holding "$$" is that token with every "$$" replaced by the decimal pid; for
\* "ls -la $$" the arguments are ls, -la and the pid, with no redirection and
\* background = FALSE.
C14_PidSubstitution ==
    [][ReadAnyCommand =>
         LET words == Strtok(buffer', 1, <<>>)
             given == Pick(words, Roles(words, 1, "arg", TRUE), "arg", 1)
         IN /\ Len(cmd'.args) = Len(given)
            /\ \A j \in 1..Len(given) :
                 HasPidSymbol(given[j])
                 => DispatchedArgs(cmd')[j] = ReplaceAll(given[j], 1)
            /\ buffer' = LineLs
                 => (/\ DispatchedArgs(cmd') = <<<<"l", "s">>, <<"-", "l", "a">>, Decimal(ShellPid)>>
                     /\ cmd'.inputFile = NoStr /\ cmd'.outputFile = NoStr
                     /\ cmd'.background = FALSE)]_vars

\* what args[] holds for a token: the token, or the pointer to res
AsArg(w) == IF HasPidSymbol(w) THEN ResPtr ELSE w

\* the paths, the arguments and the example line of C15, for a reading of the
\* line with or without the comment rule
RedirectionParsed(line, c, disabled, cut) ==
    LET words == Strtok(line, 1, <<>>)
        roles == Roles(words, 1, "arg", cut)
        ins == Pick(words, roles, "input", 1)
        outs == Pick(words, roles, "output", 1)
        given == Pick(words, roles, "arg", 1)
    IN /\ c.inputFile = IF ins = <<>> THEN NoStr ELSE ins[Len(ins)]
       /\ c.outputFile = IF outs = <<>> THEN NoStr ELSE outs[Len(outs)]
       /\ c.args = [j \in 1..Len(given) |-> AsArg(given[j])]
       /\ (line = LineSort /\ disabled = FALSE)
            => (/\ c.args = <<<<"s", "o", "r", "t">>>>
                /\ c.inputFile = <<"i", "n", ".", "t", "x", "t">>
                /\ c.outputFile = <<"o", "u", "t", ".", "t", "x", "t">>
                /\ c.background = TRUE)

\* C15 as stated: the token after "<" (">") is inputFile (outputFile) and is
\* no argument, the operators and "&" are no arguments, and all the other
\* tokens of the line are the arguments, in their order.
C15_RedirectionParsing ==
    [][ReadAnyCommand
         => RedirectionParsed(buffer', cmd', backgroundDisabled, FALSE)]_vars

\* C15, amended: the same for the tokens before the first token that starts
\* with "#" and is no path; that token and the rest of the line are dropped.
\* Of several "<" (">") the last one's path is kept.
C15_RedirectionParsingToComment ==
    [][ReadAnyCommand
         => RedirectionParsed(buffer', cmd', backgroundDisabled, TRUE)]_vars

\* the example line of C15 has been parsed with background mode enabled
C15_Witness ==
    /\ pc = "dispatch"
    /\ buffer = LineSort
    /\ cmd.background = TRUE
    /\ cmd.args = <<<<"s", "o", "r", "t">>>>

\* C16: exitShell's kill reads a record that is there; the reaper never reads
\* or frees a record exitShell has already freed; and the shell ends with
\* every record released.
C16_RecordsReleasedOnce ==
    [][/\ ExitKill => backProcs[idx] # NULL
       /\ childTerminates => \A s \in Slots : ~Dangling(s)
       /\ shell' = "exit0" => \A s \in Slots : backProcs'[s] = NULL]_vars

\* the main flow is scheduled: a waitpid whose child has ended returns
FairSpec == Spec /\ WF_vars(Wait)

\* C17: the foreground wait is left only by the return of waitpid for the
\* child runCommand has just created, and only once that child has ended; a
\* run of the reaper while the foreground child exists leaves that child as it
\* is, ended or not; and once the child has ended the wait returns.
C17_WaitIsSpecific ==
    /\ [][/\ (pc = "wait" /\ pc' # "wait")
               => (/\ proc[spawnpid].st = "zombie"
                   /\ proc'[spawnpid].st = "free"
                   /\ exitStatus' = proc[spawnpid].status)
          /\ (childTerminates /\ pc \in {"setfore", "wait"})
               => proc'[spawnpid] = proc[spawnpid]]_vars
    /\ (pc = "wait" /\ proc[spawnpid].st = "zombie") ~> (pc = "restore")

\* a background job has been reaped while the foreground child, itself ended
\* already, is still waited for
C17_Witness ==
    /\ pc = "wait"
    /\ proc[spawnpid].st = "zombie"
    /\ ~sigchld
    /\ \E p \in bgLaunched : notified[p] = 1

\* C18: a SIGINT delivered while the foreground child runCommand has created
\* is alive sends the kill to that child's pid, ends the child and prints
\* "terminated by signal 2"; also between fork and the assignment to forePID.
C18_InterruptKillsForegroundChild ==
    [][(/\ interruptSignal
        /\ pc \in {"setfore", "wait"}
        /\ Alive(spawnpid))
       => (/\ forePID = spawnpid
           /\ proc'[spawnpid].st = "zombie"
           /\ printed' = <<Out("terminated by signal", SIGINT, 0)>>)]_vars

\* C19: the kill of the SIGINT handler never reaches a job that is registered
\* in the job table, neither by its pid nor by a broadcast.
C19_InterruptSparesJobs ==
    [][interruptSignal =>
         \A s \in Slots :
            backProcs[s] # NULL => backProcs[s] \notin KillTargets(forePID)]_vars

(* ------------------------------------------------------------------ *)
(* The shell with its job table filled                                  *)
(* ------------------------------------------------------------------ *)
\* the pid of the long-running job registered in slot s
JobPid(s) == MaxPid + 1 + s

\* a background job that has replaced its image and keeps running
RunningJob ==
    [FreeProc EXCEPT !.st = "running", !.background = TRUE, !.stdin = DevNull,
                     !.stdout = DevNull, !.execed = TRUE]

\* descriptors the shell holds after MAX_PROCS launches: two more per launch
JobFds == 3 + 2 * MAX_PROCS

\* The shell after MAX_PROCS background commands and nothing else: every
\* slot but slot h holds a long-running job; slot h holds a job that may end
\* at any time (pid 1), or is empty because its job has ended and been reaped.
\* The descriptor limit leaves room for one more launch.
InitTable ==
    /\ pc = "prompt"
    /\ shell = "running"
    /\ buffer = <<>>
    /\ cmd = EmptyCommand
    /\ idx = 0
    /\ spawnpid = 0
    /\ stdOut = 0
    /\ stdIn = 0
    /\ retval = 0
    /\ fds = [fd \in 0..(JobFds + 1) |-> IF fd < JobFds THEN "tty" ELSE "closed"]
    /\ \E h \in {0, MAX_PROCS - 1}, reaped \in BOOLEAN :
        /\ backProcs = [s \in Slots |->
                          IF s # h THEN JobPid(s) ELSE IF reaped THEN NULL ELSE 1]
        /\ proc = [p \in 1..JobPid(MAX_PROCS - 1) |->
                     IF p > MaxPid /\ p # JobPid(h) THEN RunningJob
                     ELSE IF p = 1 /\ ~reaped THEN RunningJob
                     ELSE FreeProc]
        /\ bgLaunched = {p \in 1..JobPid(MAX_PROCS - 1) :
                           (p > MaxPid /\ p # JobPid(h)) \/ (p = 1 /\ ~reaped)}
        /\ notified = [p \in 1..JobPid(MAX_PROCS - 1) |-> IF p = 1 /\ reaped THEN 1 ELSE 0]
    /\ exitStatus = 0
    /\ forePID = NoPid
    /\ backgroundDisabled = FALSE
    /\ sigchld = FALSE
    /\ printed = <<>>
    /\ toggles = 0
    /\ lastFg = [kind |-> "none", n |-> 0, fail |-> "none"]
    /\ exitJobs = {}
    /\ exitKills = {}

\* the next line read is a command to launch, in the foreground or not
ReadJob ==
    /\ Running /\ pc = "prompt"
    /\ \E line \in {LineFg, LineBg} :
        /\ buffer' = line
        /\ cmd' = Parsed[line][backgroundDisabled]
    /\ pc' = "dispatch"
    /\ printed' = <<Out(": ", 0, 0)>>
    /\ UNCHANGED <<shell, locals, fds, proc, globals, sigchld, history>>

\* the shell launching commands while its jobs run and end: no signal from
\* the terminal and no exit
NextTable ==
    \/ ReadJob
    \/ Launch
    \/ SaveCheck
    \/ SaveStore
    \/ SetFore
    \/ Wait
    \/ RestoreReturn
    \/ Assign
    \/ childTerminates
    \/ \E p \in Pids : ChildSetup(p)
    \/ \E p \in Pids : ChildExit(p)
    \/ \E p \in Pids : ChildSignalled(p)
    \/ \E p \in Pids : ChildStopped(p)

SpecTable == InitTable /\ [][NextTable]_vars

\* C20: the slot scan of saveProcess steps beyond the table only when all
\* MAX_PROCS slots are occupied, and the record is stored within the table,
\* in the lowest-indexed empty slot.
C20_TableCapacity ==
    [][/\ (SaveCheck /\ idx < MAX_PROCS /\ idx' >= MAX_PROCS)
            => \A s \in Slots : backProcs[s] # NULL
       /\ SaveStore
            => (/\ idx \in Slots
                /\ backProcs[idx] = NULL
                /\ \A s \in 0..(idx - 1) : backProcs[s] # NULL)]_vars

\* no registered job has ended
NoJobEnded == \A s \in Slots : backProcs[s] # NULL => proc[backProcs[s]].st # "zombie"

\* C21: a run of the reaper when no registered job has ended changes no slot,
\* not the recorded status, the foreground pid or backgroundDisabled, prints
\* nothing, reaps no process and returns with the shell where it was (it
\* waits for no job); no run of the reaper changes a slot whose job has not
\* ended.
C21_SpuriousReaperNoOp ==
    [][childTerminates =>
         /\ NoJobEnded => (/\ UNCHANGED <<globals, proc, pc, shell, notified>>
                           /\ printed' = <<>>
                           /\ ~sigchld')
         /\ \A s \in Slots :
              (backProcs[s] # NULL /\ proc[backProcs[s]].st # "zombie")
                => backProcs'[s] = backProcs[s]]_vars

\* the foreground child has ended, its SIGCHLD has been handled by a reaper
\* run that printed nothing, and a registered job is still running
C21_Witness ==
    /\ pc = "wait" /\ proc[spawnpid].st = "zombie"
    /\ ~sigchld /\ printed = <<>>
    /\ \E s \in Slots : backProcs[s] # NULL /\ Alive(backProcs[s])

\* the tokens before the first one that starts with "#"
RECURSIVE BeforeComment(_, _)
BeforeComment(words, k) ==
    IF k > Len(words) \/ words[k][1] = "#" THEN <<>>
    ELSE <<words[k]>> \o BeforeComment(words, k + 1)

\* C22: a token that starts with "#" ends the scan wherever it occurs, after
\* "<" or ">" too: args, inputFile, outputFile and background of the parsed
\* line are those of the line cut before that token.
C22_CommentStopsScan ==
    [][ReadAnyCommand =>
         LET words == Strtok(buffer', 1, <<>>)
             c == getCommand(Join(BeforeComment(words, 1), 1), backgroundDisabled)
         IN /\ cmd'.args = c.args
            /\ cmd'.inputFile = c.inputFile
            /\ cmd'.outputFile = c.outputFile
            /\ cmd'.background = c.background]_vars

====
